---- MODULE Spec2Model ----
(***************************************************************************)
(* Competitive-analysis core of rfp-agent: the competitor roster, the      *)
(* analysis run (runCompetitiveAnalysis) with its await points, and the    *)
(* localStorage-backed store of saved analyses (CompetitiveStorage).       *)
(*                                                                         *)
(* JavaScript values are represented as follows.                           *)
(*   - a tri-state judgment is one of the strings "true", "false", "null", *)
(*     "undefined" (the last is an is_met field that is absent);  === on   *)
(*     two judgments is string equality here;                              *)
(*   - an analysis id 'analysis_<time>_<random>' is a positive number, 0   *)
(*     stands for null or for an absent id;                                *)
(*   - a competitor object is a record of the roster and is identified by  *)
(*     its id; a run that still iterates an array the roster variable no   *)
(*     longer points to keeps the [id, name] of its elements (an object    *)
(*     outside the roster is never read again); the id                     *)
(*     Date.now().toString() is the least number no live object carries;   *)
(*   - the localStorage item is a record [kind, val]: kind "absent" (no    *)
(*     item) or "json" (val is the list JSON.parse gives).                 *)
(* DOM-only effects (progress bar, cards, product name) are not state of   *)
(* this model; the disabled flag of the analysis button and the display    *)
(* style of the add-competitor dialog are, because they decide which       *)
(* handlers the user can reach.                                            *)
(*                                                                         *)
(* Three specifications share the variables:                               *)
(*   Spec         the page: the handlers of competitive.js and the store;  *)
(*   SpecStorage  the class CompetitiveStorage driven through its methods; *)
(*   SpecBuilder  the comparison records built from judgment pairs.        *)
(***************************************************************************)
EXTENDS Integers, Sequences, FiniteSets, TLC

\* ---- bounds of the model ------------------------------------------------
MaxOps == 8         \* handler steps taken on the page
MaxRuns == 2        \* activations of runCompetitiveAnalysis in flight
MaxAnalyses == 2    \* analysis ids generated on the page: the storage quota
MaxStored == 2      \* analysis ids generated in SpecStorage
MaxResults == 2     \* comparison records built in SpecBuilder
MaxCriteria == 2    \* validated criteria of a charted run
MaxLiveOps == 5     \* user steps next to the runs in SpecLive

\* ---- values -------------------------------------------------------------
Judgments == {"true", "false", "null", "undefined"}

Criterion(i, m) == [id |-> i, is_met |-> m]

\* window.validatedCriteria as left by the generate step
CriteriaChoices ==
    { <<>>,
      <<Criterion(1, "true")>>,
      <<Criterion(1, "true"), Criterion(2, "null")>> }

\* what the user can type into #competitor-name
RawNames == {"", "Acme", " acme ", "Beta", "Gamma", "Long201"}

\* String.prototype.trim on the inputs above
trim(s) == IF s = " acme " THEN "acme" ELSE s

\* String.prototype.toLowerCase on the names that occur
toLowerCase(s) ==
    CASE s = "Acme" -> "acme"
      [] s = "Beta" -> "beta"
      [] s = "Gamma" -> "gamma"
      [] s = "Long201" -> "long201"
      [] OTHER -> s

\* String.prototype.length; "Long201" stands for a name of 201 characters
length(s) ==
    CASE s = "" -> 0
      [] s = "Long201" -> 201
      [] OTHER -> 4

VARIABLES
    competitors,                 \* let competitors: the roster
    competitiveAnalysisResults,  \* let competitiveAnalysisResults
    currentAnalysisId,           \* let currentAnalysisId (0 = null)
    validatedCriteria,           \* window.validatedCriteria
    localStorage,                \* item 'competitiveAnalyses'
    nextId,                      \* number of analysis ids generated so far + 1
    modalOpen,                   \* #add-competitor-modal has style.display 'flex'
    hideTimers,                  \* pending 300 ms timers of hideAddCompetitorModal
    btnDisabled,                 \* #competitive-analysis-btn is disabled
    runs,                        \* activations of runCompetitiveAnalysis
    pendingImports,              \* files whose readFileAsText is in flight
    notification,                \* error or warning shown by the last handler step
    runReport,                   \* how the run that ended in the last step ended
    lastCall,                    \* SpecStorage: the last method call and its result
    ops,                         \* handler steps taken so far
    exported,                    \* SpecStorage: the last download and its record
    progress                     \* width of .progress-fill in percent, a fraction

vars == <<competitors, competitiveAnalysisResults, currentAnalysisId,
          validatedCriteria, localStorage, nextId, modalOpen, hideTimers,
          btnDisabled, runs, pendingImports, notification, runReport, lastCall, ops,
          exported, progress>>

RunIds == 1..MaxRuns

\* the progress bar before any run has reported
NoProgress == [num |-> 0, den |-> 1]

\* updateCompetitiveProgress(30 + (completedAnalyses / totalAnalyses) * 60)
PairProgress(completedAnalyses, totalAnalyses) ==
    [num |-> 30 * totalAnalyses + completedAnalyses * 60, den |-> totalAnalyses]

IdleRun == [pc |-> "idle", alias |-> FALSE, arr |-> <<>>, ci |-> 0, ki |-> 0,
            total |-> 0, failed |-> 0, firstFail |-> 0]

\* no run ended in the last step
NoReport == [outcome |-> "none", total |-> 0, pairs |-> 0, attempted |-> 0,
             failed |-> 0, firstFail |-> 0,
             tallies |-> [advantages |-> 0, competitive |-> 0, improvements |-> 0]]

\* no method of the store has been called
NoCall == [op |-> "none", id |-> 0, data |-> <<>>, customName |-> "",
           file |-> [parses |-> FALSE, none |-> TRUE], read |-> TRUE,
           download |-> <<>>,
           written |-> TRUE, threw |-> FALSE, ret |-> 0,
           before |-> [kind |-> "absent", val |-> <<>>]]

\* ---- pure functions of competitive.js -----------------------------------
\* determineAdvantage without the test of the competitor's judgment
determineAdvantage_yourOnly(yourScore, competitorScore) ==
    IF yourScore = "true" THEN "advantage"
    ELSE IF yourScore = competitorScore THEN "competitive"
    ELSE "needs_improvement"

determineAdvantage(yourScore, competitorScore) ==
    IF yourScore = "true" /\ competitorScore # "true" THEN "advantage"
    ELSE IF yourScore = competitorScore THEN "competitive"
    ELSE "needs_improvement"

\* the comparisonResult of one (criterion, competitor) pair
ComparisonResult(criterion, competitorName, is_met) ==
    [criterionId |-> criterion.id,
     yourIsMet |-> criterion.is_met,
     competitorName |-> competitorName,
     competitorIsMet |-> is_met,
     advantage |-> determineAdvantage(criterion.is_met, is_met)]

\* results.filter(r => r.advantage === label).length
CountAdvantage(results, label) ==
    Cardinality({i \in DOMAIN results : results[i].advantage = label})

\* ---- CompetitiveStorage -------------------------------------------------
\* stored ? JSON.parse(stored) : []  and [] when JSON.parse throws; for an
\* item that parses to a value that is no array the value is returned as it
\* is: ReturnsArray is false and <<>> stands for the records read from it
getStoredAnalyses(ls) == IF ls.kind = "json" THEN ls.val ELSE <<>>

\* the value getStoredAnalyses returns is an array
ReturnsArray(ls) == ls.kind # "notlist"

\* an item that is JSON but no array, such as {} or null
NotListItem == [kind |-> "notlist", val |-> <<>>]

\* an item that is not JSON
CorruptItem == [kind |-> "corrupt", val |-> <<>>]

\* localStorage.setItem(this.storageKey, JSON.stringify(analyses))
setItem(analyses) == [kind |-> "json", val |-> analyses]

\* localStorage.removeItem(this.storageKey)
removeItem == [kind |-> "absent", val |-> <<>>]

generateAnalysisId == nextId

\* analyses.find(analysis => analysis.id === analysisId): its index, 0 when
\* there is none
FindIndex(analyses, analysisId) ==
    IF \E i \in DOMAIN analyses : analyses[i].id = analysisId
    THEN CHOOSE i \in DOMAIN analyses :
            /\ analyses[i].id = analysisId
            /\ \A j \in DOMAIN analyses : analyses[j].id = analysisId => i <= j
    ELSE 0

\* analyses.find(...) || analyses[0]
loadAnalysis_firstRecord(ls, analysisId) ==
    IF \E i \in DOMAIN getStoredAnalyses(ls) : getStoredAnalyses(ls)[i].id = analysisId
    THEN CHOOSE i \in DOMAIN getStoredAnalyses(ls) :
            getStoredAnalyses(ls)[i].id = analysisId
    ELSE IF Len(getStoredAnalyses(ls)) > 0 THEN 1 ELSE 0

\* loadAnalysis: the index of the record found, 0 for undefined or null (also
\* when find throws on a value that is no array)
loadAnalysis(ls, analysisId) == FindIndex(getStoredAnalyses(ls), analysisId)

\* the record saveAnalysis builds from analysisData and metadata
NewAnalysis(analysisId, analysisData, metadata) ==
    [id |-> analysisId,
     hasTimestamp |-> TRUE,
     productName |-> "P",
     analysisData |-> analysisData,
     hasCompetitors |-> TRUE,
     competitors |-> metadata.competitors,
     advantages |-> metadata.advantages,
     competitive |-> metadata.competitive,
     improvements |-> metadata.improvements,
     customName |-> metadata.customName,
     manualSave |-> metadata.manualSave,
     imported |-> FALSE,
     originalId |-> 0]

\* saveAnalysis that replaces a stored record of the same customName
saveAnalysis_replaceSameName(ls, analysisId, analysisData, metadata, written) ==
    IF written
    THEN [ls |-> setItem(Append(
                    SelectSeq(getStoredAnalyses(ls),
                              LAMBDA a : a.customName # metadata.customName),
                    NewAnalysis(analysisId, analysisData, metadata))),
          threw |-> FALSE, ret |-> analysisId]
    ELSE [ls |-> ls, threw |-> TRUE, ret |-> 0]

\* saveAnalysis that keeps the results array by reference in every record
saveAnalysis_shareData(ls, analysisId, analysisData, metadata, written) ==
    IF written /\ ReturnsArray(ls)
    THEN [ls |-> setItem(Append(
                    [i \in DOMAIN getStoredAnalyses(ls) |->
                        [getStoredAnalyses(ls)[i] EXCEPT !.analysisData = analysisData]],
                    NewAnalysis(analysisId, analysisData, metadata))),
          threw |-> FALSE, ret |-> analysisId]
    ELSE [ls |-> ls, threw |-> TRUE, ret |-> 0]

\* saveAnalysis: written is whether setItem goes through; the result is the
\* item afterwards, whether the call threw, and the id it returned
saveAnalysis(ls, analysisId, analysisData, metadata, written) ==
    IF written /\ ReturnsArray(ls)
    THEN [ls |-> setItem(Append(getStoredAnalyses(ls),
                                NewAnalysis(analysisId, analysisData, metadata))),
          threw |-> FALSE, ret |-> analysisId]
    ELSE [ls |-> ls, threw |-> TRUE, ret |-> 0]

\* a filter that stops at the record it removes
RECURSIVE FilterOutId_truncate(_, _)
FilterOutId_truncate(analyses, analysisId) ==
    IF analyses = <<>> THEN <<>>
    ELSE IF Head(analyses).id = analysisId
         THEN <<>>
         ELSE <<Head(analyses)>> \o FilterOutId_truncate(Tail(analyses), analysisId)

\* analyses.filter(analysis => analysis.id !== analysisId)
RECURSIVE FilterOutId(_, _)
FilterOutId(analyses, analysisId) ==
    IF analyses = <<>> THEN <<>>
    ELSE IF Head(analyses).id = analysisId
         THEN FilterOutId(Tail(analyses), analysisId)
         ELSE <<Head(analyses)>> \o FilterOutId(Tail(analyses), analysisId)

\* deleteAnalysis whose catch swallows the error
deleteAnalysis_swallow(ls, analysisId, written) ==
    IF written
    THEN [ls |-> setItem(FilterOutId(getStoredAnalyses(ls), analysisId)),
          threw |-> FALSE, ret |-> 0]
    ELSE [ls |-> ls, threw |-> FALSE, ret |-> 0]

deleteAnalysis(ls, analysisId, written) ==
    IF written /\ ReturnsArray(ls)
    THEN [ls |-> setItem(FilterOutId(getStoredAnalyses(ls), analysisId)),
          threw |-> FALSE, ret |-> 0]
    ELSE [ls |-> ls, threw |-> TRUE, ret |-> 0]

\* ---- files handed to importAnalysis -------------------------------------
\* an export of another installation: three competitors, two of them with
\* names that differ by case only
FileThree ==
    [parses |-> TRUE, hasAnalysisData |-> TRUE, hasProductName |-> TRUE,
     hasTimestamp |-> TRUE,
     id |-> 9, productName |-> "Q",
     analysisData |-> <<ComparisonResult(Criterion(1, "true"), "Acme", "false")>>,
     hasCompetitors |-> TRUE, competitors |-> <<"Acme", "acme", "Beta">>,
     advantages |-> 1, competitive |-> 0, improvements |-> 0,
     customName |-> "", manualSave |-> FALSE]

\* a JSON file that is no analysis: no productName
FileNoProduct ==
    [parses |-> TRUE, hasAnalysisData |-> TRUE, hasProductName |-> FALSE,
     hasTimestamp |-> TRUE,
     id |-> 0, productName |-> "",
     analysisData |-> <<ComparisonResult(Criterion(1, "true"), "Acme", "true")>>,
     hasCompetitors |-> FALSE, competitors |-> <<>>,
     advantages |-> 0, competitive |-> 1, improvements |-> 0,
     customName |-> "", manualSave |-> FALSE]

\* an export written before competitors were recorded: no competitors key
FileNoCompetitors ==
    [parses |-> TRUE, hasAnalysisData |-> TRUE, hasProductName |-> TRUE,
     hasTimestamp |-> TRUE,
     id |-> 8, productName |-> "Q",
     analysisData |-> <<ComparisonResult(Criterion(1, "true"), "Beta", "true")>>,
     hasCompetitors |-> FALSE, competitors |-> <<>>,
     advantages |-> 0, competitive |-> 1, improvements |-> 0,
     customName |-> "", manualSave |-> FALSE]

Files == {FileThree, FileNoProduct, FileNoCompetitors}

\* an analysis file without a timestamp field
FileNoTimestamp ==
    [parses |-> TRUE, hasAnalysisData |-> TRUE, hasProductName |-> TRUE,
     hasTimestamp |-> FALSE,
     id |-> 7, productName |-> "Q",
     analysisData |-> <<ComparisonResult(Criterion(1, "false"), "Acme", "true")>>,
     hasCompetitors |-> TRUE, competitors |-> <<"Acme">>,
     advantages |-> 0, competitive |-> 0, improvements |-> 1,
     customName |-> "", manualSave |-> FALSE]

\* an analysis file whose analysisData is the empty array (a truthy value)
FileEmptyData ==
    [parses |-> TRUE, hasAnalysisData |-> TRUE, hasProductName |-> TRUE,
     hasTimestamp |-> TRUE,
     id |-> 6, productName |-> "Q",
     analysisData |-> <<>>,
     hasCompetitors |-> TRUE, competitors |-> <<>>,
     advantages |-> 0, competitive |-> 0, improvements |-> 0,
     customName |-> "", manualSave |-> FALSE]

\* a file that is not JSON
FileNotJson ==
    [parses |-> FALSE, hasAnalysisData |-> FALSE, hasProductName |-> FALSE,
     hasTimestamp |-> FALSE,
     id |-> 0, productName |-> "",
     analysisData |-> <<>>,
     hasCompetitors |-> FALSE, competitors |-> <<>>,
     advantages |-> 0, competitive |-> 0, improvements |-> 0,
     customName |-> "", manualSave |-> FALSE]

\* no file
NoFile == [parses |-> FALSE, none |-> TRUE]

\* nothing has been downloaded
NoExport == [file |-> NoFile, source |-> NoFile]

\* an export of the summary without the results
ExportData_withoutResults(analysis) ==
    [parses |-> TRUE, hasAnalysisData |-> TRUE,
     hasProductName |-> analysis.productName # "",
     hasTimestamp |-> analysis.hasTimestamp,
     id |-> analysis.id, productName |-> analysis.productName,
     analysisData |-> <<>>,
     hasCompetitors |-> analysis.hasCompetitors,
     competitors |-> analysis.competitors,
     advantages |-> analysis.advantages, competitive |-> analysis.competitive,
     improvements |-> analysis.improvements,
     customName |-> analysis.customName, manualSave |-> analysis.manualSave]

\* JSON.stringify(exportData) read back by JSON.parse: the fields of the record
\* (exportedAt and version are read by nothing)
ExportData(analysis) ==
    [parses |-> TRUE, hasAnalysisData |-> TRUE,
     hasProductName |-> analysis.productName # "",
     hasTimestamp |-> analysis.hasTimestamp,
     id |-> analysis.id, productName |-> analysis.productName,
     analysisData |-> analysis.analysisData,
     hasCompetitors |-> analysis.hasCompetitors,
     competitors |-> analysis.competitors,
     advantages |-> analysis.advantages, competitive |-> analysis.competitive,
     improvements |-> analysis.improvements,
     customName |-> analysis.customName, manualSave |-> analysis.manualSave]

\* link.download
ExportFilename(analysis) == <<"competitive-analysis", analysis.productName, analysis.id>>

\* exportAnalysis that returns quietly when the record is not found
exportAnalysis_quiet(ls, analysisId) ==
    LET idx == loadAnalysis(ls, analysisId) IN
    IF idx = 0
    THEN [threw |-> FALSE, file |-> NoFile, download |-> <<>>]
    ELSE [threw |-> FALSE, file |-> ExportData(getStoredAnalyses(ls)[idx]),
          download |-> ExportFilename(getStoredAnalyses(ls)[idx])]

\* exportAnalysis: whether it threw, the file it made the browser download and
\* the filename it returned
exportAnalysis(ls, analysisId) ==
    LET idx == loadAnalysis(ls, analysisId) IN
    IF idx = 0
    THEN [threw |-> TRUE, file |-> NoFile, download |-> <<>>]
    ELSE [threw |-> FALSE, file |-> ExportData(getStoredAnalyses(ls)[idx]),
          download |-> ExportFilename(getStoredAnalyses(ls)[idx])]

\* importAnalysis that spreads the file over the new id
importAnalysis_keepId(ls, newId, file, read, written) ==
    IF ~read \/ ~file.parses
       \/ ~file.hasAnalysisData \/ ~file.hasProductName
       \/ ~written
    THEN [ls |-> ls, threw |-> TRUE, ret |-> 0]
    ELSE [ls |-> setItem(Append(getStoredAnalyses(ls),
                [id |-> file.id,
                 hasTimestamp |-> file.hasTimestamp,
                 productName |-> file.productName,
                 analysisData |-> file.analysisData,
                 hasCompetitors |-> file.hasCompetitors,
                 competitors |-> file.competitors,
                 advantages |-> file.advantages,
                 competitive |-> file.competitive,
                 improvements |-> file.improvements,
                 customName |-> file.customName,
                 manualSave |-> file.manualSave,
                 imported |-> TRUE,
                 originalId |-> file.id])),
          threw |-> FALSE, ret |-> file.id]

\* a mutant: importAnalysis that writes back a list it did not read from the
\* store after the file was read
importAnalysis_staleList(ls, newId, file, read, written) ==
    IF ~read \/ ~file.parses
       \/ ~file.hasAnalysisData \/ ~file.hasProductName
       \/ ~written
    THEN [ls |-> ls, threw |-> TRUE, ret |-> 0]
    ELSE [ls |-> setItem(<<[id |-> newId,
                 hasTimestamp |-> file.hasTimestamp,
                 productName |-> file.productName,
                 analysisData |-> file.analysisData,
                 hasCompetitors |-> file.hasCompetitors,
                 competitors |-> file.competitors,
                 advantages |-> file.advantages,
                 competitive |-> file.competitive,
                 improvements |-> file.improvements,
                 customName |-> file.customName,
                 manualSave |-> file.manualSave,
                 imported |-> TRUE,
                 originalId |-> file.id]>>),
          threw |-> FALSE, ret |-> newId]

\* importAnalysis after the file is read: read is whether readFileAsText
\* resolved, written whether setItem goes through
importAnalysis(ls, newId, file, read, written) ==
    IF ~read \/ ~file.parses
       \/ ~file.hasAnalysisData \/ ~file.hasProductName
       \/ ~ReturnsArray(ls)
       \/ ~written
    THEN [ls |-> ls, threw |-> TRUE, ret |-> 0]
    ELSE [ls |-> setItem(Append(getStoredAnalyses(ls),
                [id |-> newId,
                 hasTimestamp |-> file.hasTimestamp,
                 productName |-> file.productName,
                 analysisData |-> file.analysisData,
                 hasCompetitors |-> file.hasCompetitors,
                 competitors |-> file.competitors,
                 advantages |-> file.advantages,
                 competitive |-> file.competitive,
                 improvements |-> file.improvements,
                 customName |-> file.customName,
                 manualSave |-> file.manualSave,
                 imported |-> TRUE,
                 originalId |-> file.id])),
          threw |-> FALSE, ret |-> newId]

\* ---- helpers of competitive.js ------------------------------------------
\* updateCompetitiveButtons: the disabled attribute it leaves on the button
ButtonDisabledFor(roster) == ~(Len(roster) > 0 /\ Len(validatedCriteria) > 0)

\* competitors.map(c => ({ name: c.name, description: c.description }))
RosterNames(roster) == [i \in DOMAIN roster |-> roster[i].name]

Metadata(customName, manualSave, results, roster) ==
    [customName |-> customName,
     manualSave |-> manualSave,
     advantages |-> CountAdvantage(results, "advantage"),
     competitive |-> CountAdvantage(results, "competitive"),
     improvements |-> CountAdvantage(results, "needs_improvement"),
     competitors |-> RosterNames(roster)]

Elements(roster) == [i \in DOMAIN roster |-> [id |-> roster[i].id, name |-> roster[i].name]]

\* the array a run's for..of iterates: the roster array itself until the
\* roster variable is reassigned, the old array afterwards
RunArr(r) == IF runs[r].alias THEN Elements(competitors) ELSE runs[r].arr

\* competitors = <new array>: runs iterating the old array keep it
Detach(rs) ==
    [r \in RunIds |->
        IF rs[r].pc = "await" /\ rs[r].alias
        THEN [rs[r] EXCEPT !.alias = FALSE, !.arr = Elements(competitors)]
        ELSE rs[r]]

\* competitor.status = status on the object with this id
SetStatus(roster, id, status) ==
    [i \in DOMAIN roster |->
        IF roster[i].id = id THEN [roster[i] EXCEPT !.status = status] ELSE roster[i]]

\* competitor.status = 'completed'; competitor.analysisComplete = true
SetCompleted(roster, id) ==
    [i \in DOMAIN roster |->
        IF roster[i].id = id
        THEN [roster[i] EXCEPT !.status = "completed", !.analysisComplete = TRUE]
        ELSE roster[i]]

\* ids of the competitor objects the roster or a run in flight still holds
LiveCompetitorIds ==
    {competitors[i].id : i \in DOMAIN competitors}
    \cup UNION {{runs[r].arr[i].id : i \in DOMAIN runs[r].arr} : r \in RunIds}

\* id: Date.now().toString()
NewCompetitorId == CHOOSE n \in 1..(Cardinality(LiveCompetitorIds) + 1) :
                      /\ n \notin LiveCompetitorIds
                      /\ \A m \in 1..(n - 1) : m \in LiveCompetitorIds

Init ==
    /\ competitors = <<>>
    /\ competitiveAnalysisResults = <<>>
    /\ currentAnalysisId = 0
    /\ validatedCriteria \in CriteriaChoices
    /\ localStorage = removeItem
    /\ nextId = 1
    /\ modalOpen = FALSE
    /\ hideTimers = 0
    /\ btnDisabled = FALSE
    /\ runs = [r \in RunIds |-> IdleRun]
    /\ pendingImports = {}
    /\ notification = "none"
    /\ runReport = NoReport
    /\ lastCall = NoCall
    /\ ops = 0
    /\ exported = NoExport
    /\ progress = NoProgress

\* one more handler step
Tick == ops < MaxOps /\ ops' = ops + 1

\* ---- roster -------------------------------------------------------------
addCompetitorLimit == 2

addCompetitor ==
    /\ Tick
    /\ IF Len(competitors) >= addCompetitorLimit
       THEN /\ notification' = "max_competitors"
            /\ UNCHANGED modalOpen
       ELSE /\ modalOpen' = TRUE
            /\ notification' = "none"
    /\ runReport' = NoReport
    /\ UNCHANGED <<competitors, competitiveAnalysisResults, currentAnalysisId,
                   validatedCriteria, localStorage, nextId, hideTimers,
                   btnDisabled, runs, pendingImports, lastCall, exported, progress>>

\* the cancel button or a click on the backdrop of the dialog: the dialog
\* stays displayed until the timer fires
hideAddCompetitorModal ==
    /\ Tick
    /\ modalOpen
    /\ hideTimers' = hideTimers + 1
    /\ notification' = "none"
    /\ runReport' = NoReport
    /\ UNCHANGED <<competitors, competitiveAnalysisResults, currentAnalysisId,
                   validatedCriteria, localStorage, nextId, modalOpen,
                   btnDisabled, runs, pendingImports, lastCall, exported, progress>>

\* setTimeout(() => modal.style.display = 'none', 300)
hideAddCompetitorModal_timeout ==
    /\ Tick
    /\ hideTimers > 0
    /\ hideTimers' = hideTimers - 1
    /\ modalOpen' = FALSE
    /\ notification' = "none"
    /\ runReport' = NoReport
    /\ UNCHANGED <<competitors, competitiveAnalysisResults, currentAnalysisId,
                   validatedCriteria, localStorage, nextId, btnDisabled, runs,
                   pendingImports, lastCall, exported, progress>>

\* the duplicate test without toLowerCase
IsDuplicateName_exact(roster, name) ==
    \E i \in DOMAIN roster : roster[i].name = name

\* competitors.some(comp => comp.name.toLowerCase() === name.toLowerCase())
IsDuplicateName(roster, name) ==
    \E i \in DOMAIN roster : toLowerCase(roster[i].name) = toLowerCase(name)

saveCompetitor(raw) ==
    /\ Tick
    /\ modalOpen
    /\ LET name == trim(raw) IN
       IF name = ""
       THEN /\ notification' = "name_required"
            /\ UNCHANGED <<competitors, hideTimers, btnDisabled>>
       ELSE IF length(name) > 200
       THEN /\ notification' = "name_too_long"
            /\ UNCHANGED <<competitors, hideTimers, btnDisabled>>
       ELSE IF IsDuplicateName(competitors, name)
       THEN /\ notification' = "duplicate_competitor"
            /\ UNCHANGED <<competitors, hideTimers, btnDisabled>>
       ELSE /\ competitors' = Append(competitors,
                                [id |-> NewCompetitorId, name |-> name,
                                 status |-> "pending", analysisComplete |-> FALSE])
            /\ hideTimers' = hideTimers + 1
            /\ notification' = "none"
            /\ btnDisabled' = ButtonDisabledFor(competitors')
    /\ runReport' = NoReport
    /\ UNCHANGED <<competitiveAnalysisResults, currentAnalysisId, validatedCriteria,
                   localStorage, nextId, modalOpen, runs, pendingImports, lastCall,
                   exported, progress>>

removeCompetitor(competitorId) ==
    /\ Tick
    /\ \E i \in DOMAIN competitors : competitors[i].id = competitorId
    /\ \E confirmed \in BOOLEAN :
        IF confirmed
        THEN /\ competitors' = SelectSeq(competitors, LAMBDA c : c.id # competitorId)
             /\ runs' = Detach(runs)
             /\ btnDisabled' = ButtonDisabledFor(competitors')
        ELSE UNCHANGED <<competitors, runs, btnDisabled>>
    /\ notification' = "none"
    /\ runReport' = NoReport
    /\ UNCHANGED <<competitiveAnalysisResults, currentAnalysisId, validatedCriteria,
                   localStorage, nextId, modalOpen, hideTimers, pendingImports,
                   lastCall, exported, progress>>

\* ---- runCompetitiveAnalysis ---------------------------------------------
\* from the call up to the first await of validateCriterion
runCompetitiveAnalysis_start ==
    /\ Tick
    /\ ~btnDisabled
    /\ \E r \in RunIds :
        /\ runs[r].pc = "idle"
        /\ \A q \in RunIds : q < r => runs[q].pc # "idle"
        /\ IF Len(competitors) = 0
           THEN /\ notification' = "add_competitor_first"
                /\ UNCHANGED <<competitors, competitiveAnalysisResults, btnDisabled,
                               runs, progress>>
           ELSE IF Len(validatedCriteria) = 0
           THEN /\ notification' = "no_criteria"
                /\ UNCHANGED <<competitors, competitiveAnalysisResults, btnDisabled,
                               runs, progress>>
           ELSE /\ btnDisabled' = TRUE
                \* 10, then 20, then the report of the first competitor
                /\ progress' = PairProgress(0, Len(competitors) *
                                                   Len(validatedCriteria))
                /\ competitiveAnalysisResults' = <<>>
                /\ competitors' = SetStatus(competitors, competitors[1].id, "analyzing")
                /\ runs' = [runs EXCEPT ![r] =
                              [IdleRun EXCEPT !.pc = "await", !.alias = TRUE,
                                              !.ci = 1, !.ki = 1,
                                              !.total = Len(competitors) *
                                                        Len(validatedCriteria)]]
                /\ notification' = "none"
    /\ runReport' = NoReport
    /\ UNCHANGED <<currentAnalysisId, validatedCriteria, localStorage, nextId,
                   modalOpen, hideTimers, pendingImports, lastCall, exported>>

\* an inner catch that gives the run up
AfterFailedPair_abort(me) == [me EXCEPT !.pc = "aborted"]

\* the catch of the inner try: the pair is logged and the loop goes on
AfterFailedPair(me) == [me EXCEPT !.pc = "await"]

\* the catch of the outer try: competitors.forEach(comp => comp.status = 'pending')
ResetStatuses(roster) == [i \in DOMAIN roster |-> [roster[i] EXCEPT !.status = "pending"]]

\* completedAnalyses: the calls a run at competitor ci, criterion ki has behind it
Attempted(me) == (me.ci - 1) * Len(validatedCriteria) + (me.ki - 1)

\* the report of a run that ends: how it ended, the pairs its loops range
\* over, the calls it made and those that failed
Report(me, arr, outcome) ==
    [outcome |-> outcome, total |-> me.total,
     pairs |-> Len(arr) * Len(validatedCriteria),
     attempted |-> Attempted(me) + 1, failed |-> me.failed,
     firstFail |-> me.firstFail,
     tallies |-> NoReport.tallies]

\* a mutant: summary statistics that leave the competitive results out
FinalTallies_withoutCompetitive(results) ==
    [advantages |-> CountAdvantage(results, "advantage"),
     competitive |-> 0,
     improvements |-> CountAdvantage(results, "needs_improvement")]

\* the summary statistics a run that has left its loops computes and shows
FinalTallies(results) ==
    [advantages |-> CountAdvantage(results, "advantage"),
     competitive |-> CountAdvantage(results, "competitive"),
     improvements |-> CountAdvantage(results, "needs_improvement")]

\* what one validateCriterion call can bring: a judgment, or a rejection
ValidationOutcomes == {"true", "error"}

\* validateCriterion settles (is_met, or "error" when it rejects) and the run
\* goes on to its next await or to its end
runCompetitiveAnalysis_settle(r, is_met) ==
    /\ runs[r].pc = "await"
    /\ LET me == runs[r]
           arr == RunArr(r)
           comp == arr[me.ci]
           criterion == validatedCriteria[me.ki]
           ok == is_met # "error"
           results1 == IF ok
                       THEN Append(competitiveAnalysisResults,
                                   ComparisonResult(criterion, comp.name, is_met))
                       ELSE competitiveAnalysisResults
           counted == [me EXCEPT !.failed = IF ok THEN @ ELSE @ + 1,
                                 !.firstFail = IF ~ok /\ @ = 0
                                               THEN Attempted(me) + 1 ELSE @]
           me1 == IF ok THEN counted ELSE AfterFailedPair(counted)
           done1 == SetCompleted(competitors, comp.id)
       IN
       /\ competitiveAnalysisResults' = results1
       /\ progress' = IF me1.pc = "await" /\ me.ki = Len(validatedCriteria)
                                          /\ me.ci >= Len(arr)
                       THEN [num |-> 100, den |-> 1]
                       ELSE PairProgress(Attempted(me) + 1, me.total)
       /\ IF me1.pc # "await"
          THEN \* the run was given up at the failed pair
               /\ runs' = [runs EXCEPT ![r] = IdleRun]
               /\ runReport' = Report(me1, arr, "aborted")
               /\ notification' = "run_failed"
               /\ UNCHANGED <<competitors, btnDisabled, localStorage,
                              currentAnalysisId, nextId>>
          ELSE IF me.ki < Len(validatedCriteria)
          THEN /\ runs' = [runs EXCEPT ![r] = [me1 EXCEPT !.ki = @ + 1]]
               /\ runReport' = NoReport
               /\ notification' = "none"
               /\ UNCHANGED <<competitors, btnDisabled, localStorage,
                              currentAnalysisId, nextId>>
          ELSE IF me.ci < Len(arr)
          THEN /\ runs' = [runs EXCEPT ![r] = [me1 EXCEPT !.ci = @ + 1, !.ki = 1]]
               /\ competitors' = SetStatus(done1, arr[me.ci + 1].id, "analyzing")
               /\ runReport' = NoReport
               /\ notification' = "none"
               /\ UNCHANGED <<btnDisabled, localStorage, currentAnalysisId, nextId>>
          ELSE \* the loop is over: completion, then the automatic save
               \E written \in BOOLEAN :
                    LET saved == saveAnalysis(localStorage, generateAnalysisId, results1,
                                     Metadata("", FALSE, results1, done1),
                                     written /\ nextId <= MaxAnalyses)
                    IN
                    /\ runs' = [runs EXCEPT ![r] = IdleRun]
                    /\ localStorage' = saved.ls
                    /\ IF ~saved.threw
                       THEN /\ currentAnalysisId' = saved.ret
                            /\ nextId' = nextId + 1
                            /\ competitors' = done1
                            /\ btnDisabled' = ButtonDisabledFor(competitors)
                            /\ notification' = "none"
                            /\ runReport' = [Report(me1, arr, "saved") EXCEPT
                                                !.tallies = FinalTallies(results1)]
                       ELSE /\ competitors' = ResetStatuses(done1)
                            /\ btnDisabled' = FALSE
                            /\ notification' = "run_failed"
                            /\ runReport' = [Report(me1, arr, "save_failed") EXCEPT
                                                !.tallies = FinalTallies(results1)]
                            /\ UNCHANGED <<currentAnalysisId, nextId>>
    /\ UNCHANGED <<validatedCriteria, modalOpen, hideTimers, pendingImports,
                   lastCall, exported>>

\* the continuation of a run as one more handler step of the page
runCompetitiveAnalysis_resume(r, is_met) ==
    /\ Tick
    /\ runCompetitiveAnalysis_settle(r, is_met)

\* ---- the history of saved analyses ---------------------------------------
\* ids the history list can still show: every id generated so far
KnownIds == 1..(nextId - 1)

\* what prompt('Enter a name for this analysis (optional):') || '' gives
PromptNames == {"", "Q1"}

loadPreviousAnalysis(analysisId) ==
    /\ Tick
    /\ LET idx == loadAnalysis(localStorage, analysisId)
           analysis == getStoredAnalyses(localStorage)[idx]
       IN
       IF idx = 0
       THEN /\ notification' = "analysis_not_found"
            /\ UNCHANGED <<competitors, competitiveAnalysisResults,
                           currentAnalysisId, btnDisabled, runs>>
       ELSE \E confirmed \in BOOLEAN :
            IF Len(competitiveAnalysisResults) > 0 /\ ~confirmed
            THEN /\ notification' = "none"
                 /\ UNCHANGED <<competitors, competitiveAnalysisResults,
                                currentAnalysisId, btnDisabled, runs>>
            ELSE /\ competitiveAnalysisResults' = analysis.analysisData
                 /\ currentAnalysisId' = analysisId
                 /\ IF ~analysis.hasCompetitors
                    THEN /\ btnDisabled' = ButtonDisabledFor(competitors)
                         /\ notification' = "none"
                         /\ UNCHANGED <<competitors, runs>>
                    ELSE IF Len(analysis.competitors) = 0
                    THEN \* [].map(...): a new, empty roster
                         /\ competitors' = <<>>
                         /\ runs' = Detach(runs)
                         /\ btnDisabled' = ButtonDisabledFor(competitors')
                         /\ notification' = "none"
                    ELSE \* calculateCompetitorOverallScore is not defined: the
                         \* first call of the map callback throws, the catch
                         \* reports it and the roster is not assigned
                         /\ notification' = "load_failed"
                         /\ UNCHANGED <<competitors, btnDisabled, runs>>
    /\ runReport' = NoReport
    /\ UNCHANGED <<validatedCriteria, localStorage, nextId, modalOpen, hideTimers,
                   pendingImports, lastCall, exported, progress>>

saveCurrentAnalysis(analysisName) ==
    /\ Tick
    /\ IF Len(competitiveAnalysisResults) = 0
       THEN /\ notification' = "no_analysis_data"
            /\ UNCHANGED <<localStorage, currentAnalysisId, nextId>>
       ELSE \E written \in BOOLEAN :
            LET saved == saveAnalysis(localStorage, generateAnalysisId,
                             competitiveAnalysisResults,
                             Metadata(analysisName, TRUE,
                                      competitiveAnalysisResults, competitors),
                             written /\ nextId <= MaxAnalyses)
            IN
            /\ localStorage' = saved.ls
            /\ IF saved.threw
               THEN /\ notification' = "save_failed"
                    /\ UNCHANGED <<currentAnalysisId, nextId>>
               ELSE /\ notification' = "none"
                    /\ currentAnalysisId' = saved.ret
                    /\ nextId' = nextId + 1
    /\ runReport' = NoReport
    /\ UNCHANGED <<competitors, competitiveAnalysisResults, validatedCriteria,
                   modalOpen, hideTimers, btnDisabled, runs, pendingImports,
                   lastCall, exported, progress>>

deleteStoredAnalysis(analysisId) ==
    /\ Tick
    /\ loadAnalysis(localStorage, analysisId) # 0
    /\ \E confirmed \in BOOLEAN, written \in BOOLEAN :
        LET deleted == deleteAnalysis(localStorage, analysisId, written) IN
        IF ~confirmed
        THEN /\ notification' = "none"
             /\ UNCHANGED <<localStorage, currentAnalysisId>>
        ELSE /\ localStorage' = deleted.ls
             /\ IF deleted.threw
                THEN /\ notification' = "delete_failed"
                     /\ UNCHANGED currentAnalysisId
                ELSE /\ notification' = "none"
                     /\ currentAnalysisId' =
                            IF currentAnalysisId = analysisId THEN 0
                            ELSE currentAnalysisId
    /\ runReport' = NoReport
    /\ UNCHANGED <<competitors, competitiveAnalysisResults, validatedCriteria,
                   nextId, modalOpen, hideTimers, btnDisabled, runs,
                   pendingImports, lastCall, exported, progress>>

clearAllAnalyses ==
    /\ Tick
    /\ \E confirmed \in BOOLEAN, removed \in BOOLEAN :
        IF ~confirmed
        THEN /\ notification' = "none"
             /\ UNCHANGED <<localStorage, currentAnalysisId>>
        ELSE IF ~removed
        THEN /\ notification' = "clear_failed"
             /\ UNCHANGED <<localStorage, currentAnalysisId>>
        ELSE /\ notification' = "none"
             /\ localStorage' = removeItem
             /\ currentAnalysisId' = 0
    /\ runReport' = NoReport
    /\ UNCHANGED <<competitors, competitiveAnalysisResults, validatedCriteria,
                   nextId, modalOpen, hideTimers, btnDisabled, runs,
                   pendingImports, lastCall, exported, progress>>

\* input.onchange up to the await of readFileAsText
importAnalysisFile_start(file) ==
    /\ Tick
    /\ file \notin pendingImports
    /\ pendingImports' = pendingImports \cup {file}
    /\ notification' = "none"
    /\ runReport' = NoReport
    /\ UNCHANGED <<competitors, competitiveAnalysisResults, currentAnalysisId,
                   validatedCriteria, localStorage, nextId, modalOpen,
                   hideTimers, btnDisabled, runs, lastCall, exported, progress>>

\* the FileReader settles and importAnalysis runs to its end
importAnalysisFile_resume(file) ==
    /\ Tick
    /\ file \in pendingImports
    /\ pendingImports' = pendingImports \ {file}
    /\ \E read \in BOOLEAN, written \in BOOLEAN :
        LET imported == importAnalysis(localStorage, generateAnalysisId, file, read,
                                       written /\ nextId <= MaxAnalyses)
        IN
        /\ localStorage' = imported.ls
        /\ IF imported.threw
           THEN /\ notification' = "import_failed"
                /\ UNCHANGED nextId
           ELSE /\ notification' = "none"
                /\ nextId' = nextId + 1
    /\ runReport' = NoReport
    /\ UNCHANGED <<competitors, competitiveAnalysisResults, currentAnalysisId,
                   validatedCriteria, modalOpen, hideTimers, btnDisabled, runs,
                   lastCall, exported, progress>>

Next ==
    \/ addCompetitor
    \/ hideAddCompetitorModal
    \/ hideAddCompetitorModal_timeout
    \/ \E raw \in RawNames : saveCompetitor(raw)
    \/ \E c \in LiveCompetitorIds : removeCompetitor(c)
    \/ runCompetitiveAnalysis_start
    \/ \E r \in RunIds, m \in ValidationOutcomes : runCompetitiveAnalysis_resume(r, m)
    \/ \E id \in KnownIds : loadPreviousAnalysis(id)
    \/ \E n \in PromptNames : saveCurrentAnalysis(n)
    \/ \E id \in KnownIds : deleteStoredAnalysis(id)
    \/ clearAllAnalyses
    \/ \E f \in Files : importAnalysisFile_start(f)
    \/ \E f \in Files : importAnalysisFile_resume(f)

Spec == Init /\ [][Next]_vars

\* C3: a validateCriterion call that fails never aborts the run: a run in
\* which a call failed ends only by reaching its completion step, after every
\* pair of the competitor concerned and of every later competitor of the array
\* it iterates has been attempted.
C3_FailedPairDoesNotAbort ==
    (runReport.outcome # "none" /\ runReport.failed > 0) =>
        /\ runReport.outcome \in {"saved", "save_failed"}
        /\ runReport.attempted = runReport.pairs
        /\ runReport.firstFail \in 1..runReport.attempted

\* C3 witness: a run over two competitors and two criteria whose first call
\* failed has completed after four calls
C3_Witness ==
    /\ runReport.outcome = "saved"
    /\ runReport.firstFail = 1
    /\ runReport.attempted = 4
    /\ Len(competitors) = 2
    /\ Len(validatedCriteria) = 2

\* C4: when a run completes, the results list holds exactly (number of
\* competitors x number of validated criteria) - (number of failed calls)
\* entries, whether the competitors are counted when the run starts
\* (totalAnalyses), in the array the run iterates, or in the roster at
\* completion.
C4_ResultsCountAtCompletion ==
    runReport.outcome \in {"saved", "save_failed"} =>
        Len(competitiveAnalysisResults) \in
            { runReport.total - runReport.failed,
              runReport.pairs - runReport.failed,
              Len(competitors) * Len(validatedCriteria) - runReport.failed }

\* C5: the results list holds at most one comparison record for each
\* (criterion id, competitor name) pair.
C5_OneResultPerPair ==
    \A i \in DOMAIN competitiveAnalysisResults :
        \A j \in DOMAIN competitiveAnalysisResults :
            (competitiveAnalysisResults[i].criterionId =
                 competitiveAnalysisResults[j].criterionId
             /\ competitiveAnalysisResults[i].competitorName =
                 competitiveAnalysisResults[j].competitorName) => i = j

\* C6: the roster holds at most 2 competitors.
C6_RosterAtMostTwo == Len(competitors) <= 2

\* C7: a saveCompetitor step that reports a duplicate leaves the roster, the
\* results list and the store unchanged, and after every step no two
\* competitors of the roster have names that are equal ignoring case.
C7_DuplicateRejectedNamesUnique ==
    [][ LET sameIgnoringCase(a, b) ==
                \/ a = b
                \/ {a, b} = {"Acme", "acme"}
        IN
        /\ notification' = "duplicate_competitor" =>
               UNCHANGED <<competitors, competitiveAnalysisResults, localStorage>>
        /\ \A i \in DOMAIN competitors' : \A j \in DOMAIN competitors' :
               sameIgnoringCase(competitors'[i].name, competitors'[j].name) => i = j
      ]_vars

\* C7 witness: saveCompetitor has just rejected a name while the roster holds
\* "Acme" and results of a run are in memory
C7_Witness ==
    /\ notification = "duplicate_competitor"
    /\ \E i \in DOMAIN competitors : competitors[i].name = "Acme"
    /\ Len(competitiveAnalysisResults) > 0

\* C8: the status of a competitor only changes from pending to analyzing and
\* from analyzing to completed or failed.
C8_StatusLifecycle ==
    [][ \A i \in DOMAIN competitors : \A j \in DOMAIN competitors' :
           (competitors[i].id = competitors'[j].id
            /\ competitors[i].status # competitors'[j].status) =>
               <<competitors[i].status, competitors'[j].status>> \in
                   { <<"pending", "analyzing">>,
                     <<"analyzing", "completed">>,
                     <<"analyzing", "failed">> }
      ]_vars

\* C14: for an id that no stored record has, loadAnalysis returns its not-found
\* value, and a loadPreviousAnalysis step with that id reports 'not found' and
\* leaves the results list, the roster and currentAnalysisId unchanged.
C14_LoadOfUnknownIdChangesNothing ==
    [][ \A id \in KnownIds :
           (\A i \in DOMAIN getStoredAnalyses(localStorage) :
                getStoredAnalyses(localStorage)[i].id # id) =>
               /\ loadAnalysis(localStorage, id) = 0
               /\ loadPreviousAnalysis(id) =>
                      /\ notification' = "analysis_not_found"
                      /\ UNCHANGED <<competitiveAnalysisResults, competitors,
                                     currentAnalysisId>>
      ]_vars

\* C14 witness: loadPreviousAnalysis has just reported 'not found' while
\* results, a roster and a current analysis are in memory and the store holds
\* another record
C14_Witness ==
    /\ notification = "analysis_not_found"
    /\ Len(competitiveAnalysisResults) > 0
    /\ Len(competitors) > 0
    /\ currentAnalysisId # 0
    /\ Len(getStoredAnalyses(localStorage)) > 0

\* C18: the analysisData of a stored record never changes: a record that is in
\* the store before and after a step has the same analysisData.
C18_StoredAnalysisDataImmutable ==
    [][ \A i \in DOMAIN getStoredAnalyses(localStorage) :
           \A j \in DOMAIN getStoredAnalyses(localStorage') :
               getStoredAnalyses(localStorage)[i].id =
                   getStoredAnalyses(localStorage')[j].id =>
               getStoredAnalyses(localStorage)[i].analysisData =
                   getStoredAnalyses(localStorage')[j].analysisData
      ]_vars

\* C18 witness: the current analysis was loaded from the store and a run has
\* since pushed onto the results in memory, which are now longer than the
\* stored analysisData
C18_Witness ==
    \E i \in DOMAIN getStoredAnalyses(localStorage) :
        /\ getStoredAnalyses(localStorage)[i].id = currentAnalysisId
        /\ Len(competitiveAnalysisResults) >
               Len(getStoredAnalyses(localStorage)[i].analysisData)

\* C23: while a run of runCompetitiveAnalysis is in progress the reported
\* progress percentage never decreases and never exceeds 100, whatever the
\* user does between the run's await points.
C23_ProgressMonotoneAtMostHundred ==
    [][ (\E r \in RunIds : runs[r].pc = "await") =>
            /\ progress.num * progress'.den <= progress'.num * progress.den
            /\ progress'.num <= 100 * progress'.den
      ]_vars

isCompetitiveAnalysisComplete ==
    /\ Len(competitiveAnalysisResults) > 0
    /\ \A i \in DOMAIN competitors : competitors[i].analysisComplete

\* C29: whenever no run is in progress, every competitor of the roster has
\* analysisComplete true if and only if its status is 'completed', so that
\* isCompetitiveAnalysisComplete never holds next to a competitor displayed
\* as not completed; also after a run that ended in its error handler.
C29_AnalysisCompleteIffStatusCompleted ==
    (\A r \in RunIds : runs[r].pc = "idle") =>
        /\ \A i \in DOMAIN competitors :
               competitors[i].analysisComplete <=>
                   competitors[i].status = "completed"
        /\ isCompetitiveAnalysisComplete =>
               \A i \in DOMAIN competitors : competitors[i].status = "completed"

\* C27: a loadPreviousAnalysis step on an existing record is all-or-nothing:
\* either the results in memory, the current pointer and the roster are all
\* the record's (the roster its competitors, each with status completed; for a
\* record that carries no competitors the roster as it was), or none of the
\* three has changed.
C27_LoadIsAllOrNothing ==
    [][ \A id \in KnownIds :
           (loadAnalysis(localStorage, id) # 0 /\ loadPreviousAnalysis(id)) =>
               LET analysis ==
                       getStoredAnalyses(localStorage)[loadAnalysis(localStorage, id)]
               IN
               \/ UNCHANGED <<competitiveAnalysisResults, currentAnalysisId,
                              competitors>>
               \/ /\ competitiveAnalysisResults' = analysis.analysisData
                  /\ currentAnalysisId' = id
                  /\ IF analysis.hasCompetitors
                     THEN /\ RosterNames(competitors') = analysis.competitors
                          /\ \A i \in DOMAIN competitors' :
                                 competitors'[i].status = "completed"
                     ELSE UNCHANGED competitors
      ]_vars

\* C25: whenever no run is in progress and currentAnalysisId is not null, the
\* store holds a record with that id and its analysisData equals the results
\* list in memory.
C25_CurrentPointerMatchesStore ==
    ((\A r \in RunIds : runs[r].pc = "idle") /\ currentAnalysisId # 0) =>
        \E i \in DOMAIN getStoredAnalyses(localStorage) :
            /\ getStoredAnalyses(localStorage)[i].id = currentAnalysisId
            /\ getStoredAnalyses(localStorage)[i].analysisData =
                   competitiveAnalysisResults

UserStep ==
    \/ addCompetitor
    \/ hideAddCompetitorModal
    \/ hideAddCompetitorModal_timeout
    \/ \E raw \in RawNames : saveCompetitor(raw)
    \/ \E c \in LiveCompetitorIds : removeCompetitor(c)
    \/ runCompetitiveAnalysis_start

\* the pending validateCriterion call of run r returns or fails
validateCriterion_settles(r) ==
    /\ \E is_met \in ValidationOutcomes : runCompetitiveAnalysis_settle(r, is_met)
    /\ UNCHANGED ops

NextLive ==
    \/ ops < MaxLiveOps /\ UserStep
    \/ \E r \in RunIds : validateCriterion_settles(r)

\* every pending call settles: the microtask of a settled promise is run
SpecLive ==
    /\ Init
    /\ [][NextLive]_vars
    /\ \A r \in RunIds : WF_vars(validateCriterion_settles(r))

\* C26: every run that has passed its preconditions eventually finishes, and
\* the step in which it finishes reports final advantage / competitive /
\* improvement tallies whose sum is the number of results, whether calls of
\* the run have failed or not.
C26_RunFinishesAndReportsTallies ==
    /\ \A r \in RunIds : (runs[r].pc = "await") ~> (runs[r].pc = "idle")
    /\ [][ \A r \in RunIds :
              (runs[r].pc = "await" /\ runs'[r].pc = "idle") =>
                  /\ runReport'.outcome \in {"saved", "save_failed"}
                  /\ runReport'.tallies.advantages + runReport'.tallies.competitive
                         + runReport'.tallies.improvements
                         = Len(competitiveAnalysisResults')
         ]_vars

\* C26 witness: a run in which a call failed and another succeeded has
\* finished and reported its tallies
C26_Witness ==
    /\ runReport.outcome \in {"saved", "save_failed"}
    /\ runReport.failed > 0
    /\ Len(competitiveAnalysisResults) > 0
    /\ runReport.tallies.advantages + runReport.tallies.competitive
           + runReport.tallies.improvements = Len(competitiveAnalysisResults)

\* ---- SpecBuilder: comparison records from judgment pairs -----------------
InitBuilder ==
    /\ Init
    /\ validatedCriteria = <<>>

\* the body of the inner loop of runCompetitiveAnalysis for one settled call
buildComparisonResult(yourIsMet, competitorIsMet) ==
    /\ Len(competitiveAnalysisResults) < MaxResults
    /\ competitiveAnalysisResults' =
            Append(competitiveAnalysisResults,
                   ComparisonResult(Criterion(1, yourIsMet), "Acme", competitorIsMet))
    /\ UNCHANGED <<competitors, currentAnalysisId, validatedCriteria, localStorage,
                   nextId, modalOpen, hideTimers, btnDisabled, runs,
                   pendingImports, notification, runReport, lastCall, ops,
                   exported, progress>>

NextBuilder ==
    \E y \in Judgments, c \in Judgments : buildComparisonResult(y, c)

SpecBuilder == InitBuilder /\ [][NextBuilder]_vars

\* C1: for every pair (your, competitor) of judgments drawn from true, false
\* and null, the label determineAdvantage puts on the comparison record is one
\* of 'advantage', 'competitive', 'needs_improvement', and it is 'advantage'
\* if and only if your is true and competitor is not true.
C1_AdvantageIffYourTrueCompetitorNot ==
    \A i \in DOMAIN competitiveAnalysisResults :
        LET r == competitiveAnalysisResults[i] IN
        (r.yourIsMet \in {"true", "false", "null"}
            /\ r.competitorIsMet \in {"true", "false", "null"}) =>
            /\ r.advantage \in {"advantage", "competitive", "needs_improvement"}
            /\ (r.advantage = "advantage") <=>
                   (r.yourIsMet = "true" /\ r.competitorIsMet # "true")

\* C1 witness: a record labelled 'advantage' for (true, null) next to a record
\* for (true, true) that is not
C1_Witness ==
    /\ \E i \in DOMAIN competitiveAnalysisResults :
          /\ competitiveAnalysisResults[i].yourIsMet = "true"
          /\ competitiveAnalysisResults[i].competitorIsMet = "null"
          /\ competitiveAnalysisResults[i].advantage = "advantage"
    /\ \E i \in DOMAIN competitiveAnalysisResults :
          /\ competitiveAnalysisResults[i].yourIsMet = "true"
          /\ competitiveAnalysisResults[i].competitorIsMet = "true"
          /\ competitiveAnalysisResults[i].advantage = "competitive"

\* C2: whenever your judgment and the competitor's are the same tri-state
\* value (both true, both false, or both indeterminate, where indeterminate is
\* null or absent) the label is 'competitive'; in every remaining case that is
\* not 'advantage' the label is 'needs_improvement'.
C2_SameTriStateIsCompetitive ==
    \A i \in DOMAIN competitiveAnalysisResults :
        LET r == competitiveAnalysisResults[i]
            sameTriState ==
                \/ r.yourIsMet = r.competitorIsMet
                \/ /\ r.yourIsMet \in {"null", "undefined"}
                   /\ r.competitorIsMet \in {"null", "undefined"}
        IN
        IF sameTriState THEN r.advantage = "competitive"
        ELSE r.advantage # "advantage" => r.advantage = "needs_improvement"

\* ---- SpecStorage: CompetitiveStorage driven through its methods ----------
InitStorage ==
    /\ competitors = <<>>
    /\ competitiveAnalysisResults = <<>>
    /\ currentAnalysisId = 0
    /\ validatedCriteria = <<>>
    /\ localStorage \in {removeItem, CorruptItem}
    /\ nextId = 1
    /\ modalOpen = FALSE
    /\ hideTimers = 0
    /\ btnDisabled = FALSE
    /\ runs = [r \in RunIds |-> IdleRun]
    /\ pendingImports = {}
    /\ notification = "none"
    /\ runReport = NoReport
    /\ lastCall = NoCall
    /\ ops = 0
    /\ exported = NoExport
    /\ progress = NoProgress

\* results lists handed to saveAnalysis
ResultChoices ==
    { <<ComparisonResult(Criterion(1, "true"), "Acme", "false")>>,
      <<ComparisonResult(Criterion(1, "true"), "Acme", "true"),
        ComparisonResult(Criterion(1, "true"), "Beta", "null")>> }

\* files handed to importAnalysis
StorageFiles == {FileThree, FileNoProduct, FileNoTimestamp, FileEmptyData, FileNotJson}

\* the frame of a step of SpecStorage
StorageFrame ==
    UNCHANGED <<competitors, competitiveAnalysisResults, currentAnalysisId,
                validatedCriteria, modalOpen, hideTimers, btnDisabled, runs,
                pendingImports, notification, runReport, ops, progress>>

callSaveAnalysis(analysisData, customName, written) ==
    /\ nextId <= MaxStored
    /\ LET saved == saveAnalysis(localStorage, generateAnalysisId, analysisData,
                         Metadata(customName, customName # "", analysisData,
                                  <<[name |-> "Acme"]>>),
                         written)
       IN
       /\ localStorage' = saved.ls
       /\ nextId' = IF saved.threw THEN nextId ELSE nextId + 1
       /\ lastCall' = [op |-> "saveAnalysis", id |-> 0, data |-> analysisData,
                       customName |-> customName, file |-> NoFile,
                       read |-> TRUE, download |-> <<>>, written |-> written,
                       threw |-> saved.threw, ret |-> saved.ret,
                       before |-> localStorage]
    /\ UNCHANGED exported
    /\ StorageFrame

callDeleteAnalysis(analysisId, written) ==
    /\ LET deleted == deleteAnalysis(localStorage, analysisId, written) IN
       /\ localStorage' = deleted.ls
       /\ lastCall' = [op |-> "deleteAnalysis", id |-> analysisId, data |-> <<>>,
                       customName |-> "", file |-> NoFile,
                       read |-> TRUE, download |-> <<>>, written |-> written,
                       threw |-> deleted.threw, ret |-> 0,
                       before |-> localStorage]
    /\ UNCHANGED <<nextId, exported>>
    /\ StorageFrame

callLoadAnalysis(analysisId) ==
    /\ lastCall' = [op |-> "loadAnalysis", id |-> analysisId, data |-> <<>>,
                    customName |-> "", file |-> NoFile, read |-> TRUE,
                    download |-> <<>>, written |-> TRUE, threw |-> FALSE,
                    ret |-> loadAnalysis(localStorage, analysisId),
                    before |-> localStorage]
    /\ UNCHANGED <<localStorage, nextId, exported>>
    /\ StorageFrame

callClearAllAnalyses ==
    /\ localStorage' = removeItem
    /\ lastCall' = [op |-> "clearAllAnalyses", id |-> 0, data |-> <<>>,
                    customName |-> "", file |-> NoFile, read |-> TRUE,
                    download |-> <<>>, written |-> TRUE, threw |-> FALSE,
                    ret |-> 0, before |-> localStorage]
    /\ UNCHANGED <<nextId, exported>>
    /\ StorageFrame

callExportAnalysis(analysisId) ==
    /\ LET out == exportAnalysis(localStorage, analysisId) IN
       /\ exported' = IF out.file = NoFile THEN exported
                      ELSE [file |-> out.file,
                            source |-> getStoredAnalyses(localStorage)
                                          [loadAnalysis(localStorage, analysisId)]]
       /\ lastCall' = [op |-> "exportAnalysis", id |-> analysisId, data |-> <<>>,
                       customName |-> "", file |-> out.file, read |-> TRUE,
                       download |-> out.download, written |-> TRUE,
                       threw |-> out.threw, ret |-> 0, before |-> localStorage]
    /\ UNCHANGED <<localStorage, nextId>>
    /\ StorageFrame

callImportAnalysis(file, read, written) ==
    /\ nextId <= MaxStored
    /\ LET imported == importAnalysis(localStorage, generateAnalysisId, file, read,
                                      written)
       IN
       /\ localStorage' = imported.ls
       /\ nextId' = IF imported.threw THEN nextId ELSE nextId + 1
       /\ lastCall' = [op |-> "importAnalysis", id |-> file.id,
                       data |-> file.analysisData, customName |-> file.customName,
                       file |-> file, read |-> read, download |-> <<>>,
                       written |-> written, threw |-> imported.threw,
                       ret |-> imported.ret, before |-> localStorage]
    /\ UNCHANGED exported
    /\ StorageFrame

NextStorage ==
    \/ \E d \in ResultChoices, n \in PromptNames, w \in BOOLEAN :
            callSaveAnalysis(d, n, w)
    \/ \E id \in 1..(MaxStored + 1), w \in BOOLEAN : callDeleteAnalysis(id, w)
    \/ \E id \in 1..(MaxStored + 1) : callLoadAnalysis(id)
    \/ callClearAllAnalyses
    \/ \E id \in 1..(MaxStored + 1) : callExportAnalysis(id)
    \/ \E f \in StorageFiles \cup ({exported.file} \ {NoFile}),
          r \in BOOLEAN, w \in BOOLEAN : callImportAnalysis(f, r, w)

SpecStorage == InitStorage /\ [][NextStorage]_vars

\* C9: a saveAnalysis call whose write goes through appends exactly one record
\* that carries the given results and metadata and returns its non-empty id;
\* the records stored before the call are all still there, unchanged and in the
\* same order, none merged or dropped.
C9_SaveAppendsOneRecord ==
    (lastCall.op = "saveAnalysis" /\ lastCall.written) =>
        LET before == getStoredAnalyses(lastCall.before)
            after == getStoredAnalyses(localStorage)
        IN
        /\ ~lastCall.threw
        /\ lastCall.ret # 0
        /\ Len(after) = Len(before) + 1
        /\ \A i \in DOMAIN before : after[i] = before[i]
        /\ after[Len(after)].id = lastCall.ret
        /\ after[Len(after)].analysisData = lastCall.data
        /\ after[Len(after)].customName = lastCall.customName
        /\ after[Len(after)].manualSave = (lastCall.customName # "")
        /\ after[Len(after)].competitors = <<"Acme">>

\* C9 witness: a second save of the same results under the same name went
\* through, and the store holds both records
C9_Witness ==
    /\ lastCall.op = "saveAnalysis"
    /\ ~lastCall.threw
    /\ Len(getStoredAnalyses(localStorage)) = 2
    /\ getStoredAnalyses(localStorage)[1].customName = "Q1"
    /\ getStoredAnalyses(localStorage)[2].customName = "Q1"
    /\ getStoredAnalyses(localStorage)[1].analysisData =
          getStoredAnalyses(localStorage)[2].analysisData
    /\ getStoredAnalyses(localStorage)[1].id # getStoredAnalyses(localStorage)[2].id

\* C10: when the write of a saveAnalysis or deleteAnalysis call fails, the call
\* throws to its caller and the stored item is exactly what it was before the
\* call.
C10_FailedWriteThrowsAndKeepsStore ==
    (lastCall.op \in {"saveAnalysis", "deleteAnalysis"} /\ ~lastCall.written) =>
        /\ lastCall.threw
        /\ localStorage = lastCall.before

\* C10 witness: the write of a deleteAnalysis call for a stored record failed
C10_Witness ==
    /\ lastCall.op = "deleteAnalysis"
    /\ ~lastCall.written
    /\ lastCall.threw
    /\ \E i \in DOMAIN getStoredAnalyses(localStorage) :
          getStoredAnalyses(localStorage)[i].id = lastCall.id

\* C11: importAnalysis accepts a file only if it has an analysisData field that
\* is a non-empty array, a productName and a timestamp: for a file that lacks
\* one of these the call throws and the store is unchanged.
C11_ImportRejectsIncompleteFile ==
    (lastCall.op = "importAnalysis"
        /\ (\/ ~lastCall.file.parses
            \/ ~lastCall.file.hasAnalysisData
            \/ Len(lastCall.file.analysisData) = 0
            \/ ~lastCall.file.hasProductName
            \/ ~lastCall.file.hasTimestamp)) =>
        /\ lastCall.threw
        /\ localStorage = lastCall.before

\* C12: an importAnalysis call that succeeds appends one record whose id is
\* newly generated (not the id of the file, not the id of a record already
\* stored), whose imported flag is true and whose originalId is the id of the
\* file; the records stored before are all still there.
C12_ImportAppendsUnderNewId ==
    (lastCall.op = "importAnalysis" /\ ~lastCall.threw) =>
        LET before == getStoredAnalyses(lastCall.before)
            after == getStoredAnalyses(localStorage)
            rec == after[Len(after)]
        IN
        /\ Len(after) = Len(before) + 1
        /\ \A i \in DOMAIN before : after[i] = before[i]
        /\ rec.id = lastCall.ret
        /\ rec.id # 0
        /\ rec.id # lastCall.file.id
        /\ \A i \in DOMAIN before : before[i].id # rec.id
        /\ rec.imported
        /\ rec.originalId = lastCall.file.id

\* C12 witness: a file exported from this store was imported next to the
\* record it was exported from
C12_Witness ==
    /\ lastCall.op = "importAnalysis"
    /\ ~lastCall.threw
    /\ lastCall.file = exported.file
    /\ \E i \in DOMAIN getStoredAnalyses(lastCall.before) :
          getStoredAnalyses(lastCall.before)[i].id = lastCall.file.id

\* C13: importing the file exportAnalysis made of a stored record r into a
\* fresh store, with the file read and the write going through, yields a
\* record whose analysisData, productName and advantages / competitive /
\* improvements counts equal those of r, whose id differs from r.id and whose
\* imported flag is true.
C13_ExportImportRoundTrip ==
    (lastCall.op = "importAnalysis"
        /\ exported # NoExport
        /\ lastCall.file = exported.file
        /\ lastCall.read /\ lastCall.written
        /\ getStoredAnalyses(lastCall.before) = <<>>) =>
        /\ ~lastCall.threw
        /\ Len(getStoredAnalyses(localStorage)) = 1
        /\ LET rec == getStoredAnalyses(localStorage)[1]
               r == exported.source
           IN
           /\ rec.analysisData = r.analysisData
           /\ rec.productName = r.productName
           /\ rec.advantages = r.advantages
           /\ rec.competitive = r.competitive
           /\ rec.improvements = r.improvements
           /\ rec.id # r.id
           /\ rec.imported

\* C13 witness: the export of a record saved with two results has been
\* imported into the emptied store
C13_Witness ==
    /\ lastCall.op = "importAnalysis"
    /\ ~lastCall.threw
    /\ exported # NoExport
    /\ lastCall.file = exported.file
    /\ getStoredAnalyses(lastCall.before) = <<>>
    /\ Len(exported.source.analysisData) = 2
    /\ ~exported.source.imported

C15_DeleteRemovesOnlyThatId ==
    (lastCall.op = "deleteAnalysis" /\ lastCall.written) =>
        /\ ~lastCall.threw
        /\ getStoredAnalyses(localStorage) =
               SelectSeq(getStoredAnalyses(lastCall.before),
                         LAMBDA a : a.id # lastCall.id)
        /\ (\A i \in DOMAIN getStoredAnalyses(lastCall.before) :
                getStoredAnalyses(lastCall.before)[i].id # lastCall.id) =>
               getStoredAnalyses(localStorage) = getStoredAnalyses(lastCall.before)

\* C15 witness: the first of two stored records has been deleted
C15_Witness ==
    /\ lastCall.op = "deleteAnalysis"
    /\ ~lastCall.threw
    /\ Len(getStoredAnalyses(lastCall.before)) = 2
    /\ getStoredAnalyses(lastCall.before)[1].id = lastCall.id
    /\ Len(getStoredAnalyses(localStorage)) = 1

\* ---- SpecBlob: CompetitiveStorage over any persisted item ----------------
InitBlob ==
    /\ competitors = <<>>
    /\ competitiveAnalysisResults = <<>>
    /\ currentAnalysisId = 0
    /\ validatedCriteria = <<>>
    /\ localStorage \in {removeItem, CorruptItem, NotListItem}
    /\ nextId = 1
    /\ modalOpen = FALSE
    /\ hideTimers = 0
    /\ btnDisabled = FALSE
    /\ runs = [r \in RunIds |-> IdleRun]
    /\ pendingImports = {}
    /\ notification = "none"
    /\ runReport = NoReport
    /\ lastCall = NoCall
    /\ ops = 0
    /\ exported = NoExport
    /\ progress = NoProgress

SpecBlob == InitBlob /\ [][NextStorage]_vars

\* C16: when the persisted item is absent, unparseable or parses to something
\* that is no list of records, getStoredAnalyses returns an empty list and the
\* operations built on it behave as on an empty store: loadAnalysis finds
\* nothing, and a saveAnalysis or deleteAnalysis whose write goes through does
\* not throw and leaves one record, or none.
C16_UnreadableItemIsEmptyStore ==
    (lastCall.op # "none"
        /\ lastCall.before.kind \in {"absent", "corrupt", "notlist"}) =>
        /\ ReturnsArray(lastCall.before)
        /\ getStoredAnalyses(lastCall.before) = <<>>
        /\ lastCall.op = "loadAnalysis" => (lastCall.ret = 0 /\ ~lastCall.threw)
        /\ (lastCall.op = "saveAnalysis" /\ lastCall.written) =>
               (~lastCall.threw /\ Len(getStoredAnalyses(localStorage)) = 1)
        /\ (lastCall.op = "deleteAnalysis" /\ lastCall.written) =>
               (~lastCall.threw /\ getStoredAnalyses(localStorage) = <<>>)

\* ---- SpecChart: the charts over the results of a run ---------------------
\* criterion.category as the extraction API returns it; "legal" is a code the
\* category table does not know, "" is a criterion without a category
ApiCategories == {"security", "compliance", "other", "legal", ""}

ChartCriterion(i, m, c) == [id |-> i, is_met |-> m, category |-> c]

\* the rosters a charted run can start from: names in the order the user
\* added them, "7" a name that is a decimal number
ChartRosters == { <<"Acme", "Beta">>, <<"Beta", "Acme">>, <<"Acme", "7">> }

\* the names of the competitors of the charted run, in roster order
ChartRoster == [i \in DOMAIN competitors |-> competitors[i].name]

\* Math.round of the non-negative quotient num / den
MathRound(num, den) == (2 * num + den) \div (2 * den)

\* isMet === true ? 100 : isMet === false ? 0 : 50
JudgmentScore(isMet) ==
    IF isMet = "true" THEN 100 ELSE IF isMet = "false" THEN 0 ELSE 50

RECURSIVE ReduceScore(_, _)
\* results.reduce((sum, result) => sum + score(result), 0), on the competitor's
\* judgment or on yours
ReduceScore(results, ofYours) ==
    IF results = <<>> THEN 0
    ELSE JudgmentScore(IF ofYours THEN Head(results).yourIsMet
                       ELSE Head(results).competitorIsMet)
         + ReduceScore(Tail(results), ofYours)

calculateOverallComplianceScore(entity, competitiveResults) ==
    IF entity = "your"
    THEN IF Len(competitiveResults) = 0 THEN 0
         ELSE MathRound(ReduceScore(competitiveResults, TRUE),
                        Len(competitiveResults))
    ELSE LET competitorResults ==
                 SelectSeq(competitiveResults,
                           LAMBDA r : r.competitorName = entity)
         IN
         IF Len(competitorResults) = 0 THEN 0
         ELSE MathRound(ReduceScore(competitorResults, FALSE),
                        Len(competitorResults))

calculateYourProductScore(criteria) ==
    IF Len(criteria) = 0 THEN 0
    ELSE LET compliantCount ==
                 Len(SelectSeq(criteria, LAMBDA c : c.is_met = "true"))
             totalCount == Len(criteria)
         IN MathRound(compliantCount * 100, totalCount)

RECURSIVE UniqueCompetitors(_)
\* Array.from(uniqueCompetitors): the names in the order the results
\* introduce them into the Set
UniqueCompetitors(results) ==
    IF results = <<>> THEN <<>>
    ELSE LET before == UniqueCompetitors(SubSeq(results, 1, Len(results) - 1))
             name == results[Len(results)].competitorName
         IN
         IF \E i \in DOMAIN before : before[i] = name THEN before
         ELSE Append(before, name)

\* a property key that is an array index: the canonical decimal form of an
\* integer, on the names that occur
IsIntegerKey(name) == name = "7"

\* the key order of Object.values: integer keys first (ascending), the other
\* keys in the order they were created
OwnKeys(names) ==
    SelectSeq(names, IsIntegerKey) \o SelectSeq(names, LAMBDA k : ~IsIntegerKey(k))

\* labels of complianceData
ChartLabels(results) == <<"Your Product">> \o UniqueCompetitors(results)

\* complianceData of prepareChartData: your score and one score for each
\* competitor that has a result, and the labels and scores arrays built of
\* them
prepareChartData ==
    LET uniqueCompetitors ==
            { competitiveAnalysisResults[i].competitorName :
                  i \in DOMAIN competitiveAnalysisResults }
        yourOverallScore == calculateYourProductScore(validatedCriteria)
        competitorScores ==
            [competitorName \in uniqueCompetitors |->
                LET competitorResults ==
                        SelectSeq(competitiveAnalysisResults,
                                  LAMBDA r : r.competitorName = competitorName)
                IN MathRound(ReduceScore(competitorResults, FALSE),
                             Len(competitorResults))]
        keys == OwnKeys(UniqueCompetitors(competitiveAnalysisResults))
    IN
    [your |-> yourOverallScore,
     competitorScores |-> competitorScores,
     labels |-> ChartLabels(competitiveAnalysisResults),
     scores |-> <<yourOverallScore>> \o
                    [i \in DOMAIN keys |-> competitorScores[keys[i]]]]

\* category.charAt(0).toUpperCase() + category.slice(1), on the codes above
Capitalize(category) ==
    CASE category = "legal" -> "Legal"
      [] category = "security" -> "Security"
      [] category = "compliance" -> "Compliance"
      [] category = "other" -> "Other"

\* categoryMap[category] || capitalised category
formatCategoryName(category) ==
    CASE category = "technical" -> "Technical Requirements"
      [] category = "security" -> "Security & Compliance"
      [] category = "performance" -> "Performance & Scalability"
      [] category = "support" -> "Support & Maintenance"
      [] category = "compliance" -> "Security & Compliance"
      [] category = "integration" -> "Integration & Compatibility"
      [] category = "financial" -> "Financial"
      [] category = "other" -> "General Requirements"
      [] OTHER -> Capitalize(category)

\* criterion.criterion_text of the criterion with this id
criterion_text(id) ==
    CASE id = 1 -> "Data encryption with high availability"
      [] id = 2 -> "Delivery within 30 days"
      [] OTHER -> "API price list"

\* text.toLowerCase().includes(word), on the texts above
includes(text, word) ==
    \/ text = "Data encryption with high availability"
           /\ word \in {"encryption", "availability"}
    \/ text = "API price list" /\ word \in {"api", "price"}

\* DocumentGenerator.categorizecriterion on the text of the criterion with
\* this id
categorizecriterion(id) ==
    LET text == criterion_text(id)
        found == { i \in DOMAIN validatedCriteria :
                       criterion_text(validatedCriteria[i].id) = text }
        criterion == validatedCriteria[CHOOSE i \in found :
                                           \A j \in found : i <= j]
        any(words) == \E w \in words : includes(text, w)
    IN
    IF found # {} /\ criterion.category # ""
    THEN formatCategoryName(criterion.category)
    ELSE IF any({"security", "encryption", "compliance"})
    THEN "Security & Compliance"
    ELSE IF any({"performance", "speed", "availability"})
    THEN "Performance & Scalability"
    ELSE IF any({"technical", "system", "technology"})
    THEN "Technical Requirements"
    ELSE IF any({"support", "maintenance", "service"})
    THEN "Support & Maintenance"
    ELSE IF any({"integration", "api", "compatibility"})
    THEN "Integration & Compatibility"
    ELSE IF any({"cost", "price", "financial"})
    THEN "Financial"
    ELSE "General Requirements"

\* criteriaMap[r.criterionText] turned into the display category, with the
\* fallback for a result whose criterion has no category
DisplayCategory(r) ==
    LET mapped == { i \in DOMAIN validatedCriteria :
                        /\ validatedCriteria[i].id = r.criterionId
                        /\ validatedCriteria[i].category # "" }
    IN
    IF mapped = {} THEN "General Requirements"
    ELSE formatCategoryName(
             validatedCriteria[CHOOSE i \in mapped :
                                   \A j \in mapped : j <= i].category)

\* the members of the sorted array getCategoriesFromAnalysis returns
getCategoriesFromAnalysis(competitiveResults) ==
    { DisplayCategory(competitiveResults[i]) : i \in DOMAIN competitiveResults }

\* a member of criteriaMap: some validated criterion with a category has the
\* text of this result
HasMappedCategory(r) ==
    \E i \in DOMAIN validatedCriteria :
        /\ validatedCriteria[i].id = r.criterionId
        /\ validatedCriteria[i].category # ""

\* a mutant: a result without a mapped category passes the filter of every
\* category
getCategoryResults_unmappedEverywhere(category, competitiveResults) ==
    SelectSeq(competitiveResults,
              LAMBDA r : ~HasMappedCategory(r) \/ DisplayCategory(r) = category)

getCategoryResults(category, competitiveResults) ==
    SelectSeq(competitiveResults, LAMBDA r : DisplayCategory(r) = category)

getCategoryTotalCount(category, competitiveResults) ==
    Len(getCategoryResults(category, competitiveResults))

calculateCategoryComplianceCount(entity, category, competitiveResults) ==
    LET categoryResults == getCategoryResults(category, competitiveResults)
    IN
    IF entity = "your"
    THEN Len(SelectSeq(categoryResults, LAMBDA r : r.yourIsMet = "true"))
    ELSE Len(SelectSeq(categoryResults,
                       LAMBDA r : /\ r.competitorName = entity
                                  /\ r.competitorIsMet = "true"))

RECURSIVE CompetitorNames(_)
\* the keys of competitorCounts, in the order the results introduce them
CompetitorNames(categoryResults) ==
    IF categoryResults = <<>> THEN <<>>
    ELSE LET before == CompetitorNames(SubSeq(categoryResults, 1,
                                              Len(categoryResults) - 1))
             compName == categoryResults[Len(categoryResults)].competitorName
         IN
         IF \E i \in DOMAIN before : before[i] = compName THEN before
         ELSE Append(before, compName)

\* competitorCounts[compName]
CompetitorCount(compName, categoryResults) ==
    [compliant |-> Len(SelectSeq(categoryResults,
                                 LAMBDA r : /\ r.competitorName = compName
                                            /\ r.competitorIsMet = "true")),
     total |-> Len(SelectSeq(categoryResults,
                             LAMBDA r : r.competitorName = compName))]

RECURSIVE ReduceRates(_, _)
\* competitorRates.reduce((sum, rate) => sum + rate, 0) as the exact fraction
\* num / den
ReduceRates(names, categoryResults) ==
    IF names = <<>> THEN [num |-> 0, den |-> 1]
    ELSE LET sum == ReduceRates(Tail(names), categoryResults)
             c == CompetitorCount(Head(names), categoryResults)
         IN [num |-> sum.num * c.total + c.compliant * sum.den,
             den |-> sum.den * c.total]

\* a mutant: the compliant rows of the category divided among its
\* competitors, in place of the rescaled mean rate
AverageRateCount_meanOfCounts(categoryResults) ==
    LET names == CompetitorNames(categoryResults)
    IN
    IF Len(names) = 0 THEN 0
    ELSE MathRound(Len(SelectSeq(categoryResults,
                                 LAMBDA r : r.competitorIsMet = "true")),
                   Len(names))

\* Math.round(avgRate * categoryResults.length), 0 without competitors
AverageRateCount(categoryResults) ==
    LET names == CompetitorNames(categoryResults)
        sum == ReduceRates(names, categoryResults)
    IN
    IF Len(names) = 0 THEN 0
    ELSE MathRound(sum.num * Len(categoryResults), sum.den * Len(names))

calculateAverageCompetitorComplianceCount(category, competitiveResults) ==
    AverageRateCount(getCategoryResults(category, competitiveResults))

\* yourCompliance, competitorCompliance and totals of
\* prepareCategoryChartData, by category
prepareCategoryChartData(selectedCompetitor) ==
    [category \in getCategoriesFromAnalysis(competitiveAnalysisResults) |->
        LET categoryResults ==
                getCategoryResults(category, competitiveAnalysisResults)
        IN
        [yourCompliance |->
             Len(SelectSeq(categoryResults, LAMBDA r : r.yourIsMet = "true")),
         competitorCompliance |->
             IF selectedCompetitor = "average"
             THEN AverageRateCount(categoryResults)
             ELSE Len(SelectSeq(categoryResults,
                                LAMBDA r : /\ r.competitorName = selectedCompetitor
                                           /\ r.competitorIsMet = "true")),
         totals |-> Len(categoryResults)]]

\* the validated criteria a run can start from
ChartCriteria ==
    UNION { [1..n -> Judgments \X ApiCategories] : n \in 0..MaxCriteria }

InitChart ==
    /\ \E roster \in ChartRosters :
           competitors = [i \in DOMAIN roster |->
                             [id |-> i, name |-> roster[i], status |-> "pending",
                              analysisComplete |-> FALSE]]
    /\ competitiveAnalysisResults = <<>>
    /\ currentAnalysisId = 0
    /\ \E pick \in ChartCriteria :
           validatedCriteria =
               [i \in DOMAIN pick |-> ChartCriterion(i, pick[i][1], pick[i][2])]
    /\ localStorage = removeItem
    /\ nextId = 1
    /\ modalOpen = FALSE
    /\ hideTimers = 0
    /\ btnDisabled = FALSE
    /\ runs = [r \in RunIds |-> IdleRun]
    /\ pendingImports = {}
    /\ notification = "none"
    /\ runReport = NoReport
    /\ lastCall = NoCall
    /\ ops = 0
    /\ exported = NoExport
    /\ progress = NoProgress

ChartFrame ==
    UNCHANGED <<competitors, currentAnalysisId, validatedCriteria, localStorage,
                nextId, modalOpen, hideTimers, btnDisabled, runs,
                pendingImports, notification, runReport, lastCall, exported, progress>>

\* the pair the loops of runCompetitiveAnalysis reach after ops pairs: the
\* competitors in roster order, for each the criteria in order
PairCompetitor == ChartRoster[(ops \div Len(validatedCriteria)) + 1]

PairCriterion == validatedCriteria[(ops % Len(validatedCriteria)) + 1]

\* one pass of the inner loop whose validation succeeds
analyzePair(is_met) ==
    /\ ops < Len(ChartRoster) * Len(validatedCriteria)
    /\ competitiveAnalysisResults' =
           Append(competitiveAnalysisResults,
                  ComparisonResult(PairCriterion, PairCompetitor, is_met))
    /\ ops' = ops + 1
    /\ ChartFrame

\* one pass of the inner loop whose validation throws: no result is recorded
analyzePair_failed ==
    /\ ops < Len(ChartRoster) * Len(validatedCriteria)
    /\ ops' = ops + 1
    /\ UNCHANGED competitiveAnalysisResults
    /\ ChartFrame

NextChart ==
    \/ \E is_met \in Judgments : analyzePair(is_met)
    \/ analyzePair_failed

SpecChart == InitChart /\ [][NextChart]_vars

\* s is the round-half-up mean of 100 / 0 / 50 over the judgments, and 0 when
\* there are none
IsRoundedMeanScore(s, judgments) ==
    LET n == Len(judgments)
        points == [i \in DOMAIN judgments |->
                      CASE judgments[i] = "true" -> 100
                        [] judgments[i] = "false" -> 0
                        [] OTHER -> 50]
        acc[k \in 0..n] == IF k = 0 THEN 0 ELSE acc[k - 1] + 2 * points[k]
        t2 == acc[n]
    IN
    /\ s \in 0..100
    /\ IF n = 0 THEN s = 0
       ELSE 2 * n * s <= t2 + n /\ t2 + n < 2 * n * s + 2 * n

\* the judgments of one entity among the results, in order
JudgmentsOf(entity) ==
    IF entity = "your"
    THEN [i \in DOMAIN competitiveAnalysisResults |->
              competitiveAnalysisResults[i].yourIsMet]
    ELSE LET own == SelectSeq(competitiveAnalysisResults,
                              LAMBDA r : r.competitorName = entity)
         IN [i \in DOMAIN own |-> own[i].competitorIsMet]

\* C19: the overall score of an entity (your product or one competitor) is
\* the round-half-up mean of 100 for each true, 0 for each false and 50 for
\* each indeterminate judgment among that entity's results, an integer in
\* 0..100 and 0 without results; once there are results, the scores of the
\* compliance chart, the one of your product included, are these scores.
C19_OverallScoreIsRoundedMean ==
    /\ \A entity \in {"your"} \cup {ChartRoster[i] : i \in DOMAIN ChartRoster} :
           IsRoundedMeanScore(
               calculateOverallComplianceScore(entity, competitiveAnalysisResults),
               JudgmentsOf(entity))
    /\ competitiveAnalysisResults # <<>> =>
           /\ IsRoundedMeanScore(prepareChartData.your, JudgmentsOf("your"))
           /\ \A competitorName \in DOMAIN prepareChartData.competitorScores :
                  IsRoundedMeanScore(
                      prepareChartData.competitorScores[competitorName],
                      JudgmentsOf(competitorName))

\* C20: for the 'average' selection the competitor compliant count of a
\* category is round(mean over the competitors present in the category of
\* (that competitor's compliant results in it / that competitor's results in
\* it) x number of results in the category), and 0 for a category without
\* results; your count of the category is the number of its results your
\* judgment of which is true.
C20_AverageCountIsRescaledMeanRate ==
    \A category \in getCategoriesFromAnalysis(competitiveAnalysisResults)
                        \cup {"Technical Requirements"} :
        LET inCategory == { i \in DOMAIN competitiveAnalysisResults :
                                DisplayCategory(competitiveAnalysisResults[i])
                                    = category }
            n == Cardinality(inCategory)
            present == { competitiveAnalysisResults[i].competitorName :
                             i \in inCategory }
            total(c) == Cardinality({ i \in inCategory :
                            competitiveAnalysisResults[i].competitorName = c })
            compliant(c) == Cardinality({ i \in inCategory :
                            /\ competitiveAnalysisResults[i].competitorName = c
                            /\ competitiveAnalysisResults[i].competitorIsMet = "true" })
            \* the rates over the common denominator prod[present]
            prod[S \in SUBSET present] ==
                IF S = {} THEN 1
                ELSE LET c == CHOOSE x \in S : TRUE
                     IN total(c) * prod[S \ {c}]
            scaled[S \in SUBSET present] ==
                IF S = {} THEN 0
                ELSE LET c == CHOOSE x \in S : TRUE
                     IN compliant(c) * (prod[present] \div total(c))
                        + scaled[S \ {c}]
            num == scaled[present] * n
            den == prod[present] * Cardinality(present)
            count == calculateAverageCompetitorComplianceCount(
                         category, competitiveAnalysisResults)
        IN
        IF n = 0 THEN count = 0
        ELSE /\ 2 * den * count <= 2 * num + den
             /\ 2 * num + den < 2 * den * count + 2 * den
             /\ prepareCategoryChartData("average")[category].competitorCompliance
                    = count
             /\ prepareCategoryChartData("average")[category].yourCompliance
                    = Cardinality({ i \in inCategory :
                          competitiveAnalysisResults[i].yourIsMet = "true" })
             /\ prepareCategoryChartData("average")[category].totals = n

\* C20 witness: two results in 'Security & Compliance', yours true on both,
\* Acme true on the one and Beta false on the other: average count 1, your
\* count 2
C20_Witness ==
    /\ Len(competitiveAnalysisResults) = 2
    /\ \A i \in 1..2 :
           /\ DisplayCategory(competitiveAnalysisResults[i]) = "Security & Compliance"
           /\ competitiveAnalysisResults[i].yourIsMet = "true"
    /\ competitiveAnalysisResults[1].competitorName = "Acme"
    /\ competitiveAnalysisResults[1].competitorIsMet = "true"
    /\ competitiveAnalysisResults[2].competitorName = "Beta"
    /\ competitiveAnalysisResults[2].competitorIsMet = "false"
    /\ prepareCategoryChartData("average")["Security & Compliance"].competitorCompliance = 1
    /\ prepareCategoryChartData("average")["Security & Compliance"].yourCompliance = 2

\* the place of a competitor name in sorted order, on the names that occur
SortedRank(name) ==
    CASE name = "7" -> 1
      [] name = "Acme" -> 2
      [] name = "Beta" -> 3

\* C21: the labels of the compliance chart are your product first, followed by
\* each unique competitor name in sorted order, and a results list holding the
\* same results in another order gives the same labels.
C21_SeriesSortedAndOrderIndependent ==
    LET labels == prepareChartData.labels
        n == Len(competitiveAnalysisResults)
        reorderings == { p \in [1..n -> 1..n] :
                             \A i \in 1..n : \A j \in 1..n : p[i] = p[j] => i = j }
    IN
    /\ labels[1] = "Your Product"
    /\ { labels[i] : i \in 2..Len(labels) } =
           { competitiveAnalysisResults[i].competitorName : i \in 1..n }
    /\ \A i \in 2..Len(labels) : \A j \in 2..Len(labels) :
           i < j => SortedRank(labels[i]) < SortedRank(labels[j])
    /\ \A p \in reorderings :
           ChartLabels([i \in 1..n |-> competitiveAnalysisResults[p[i]]]) = labels

\* C28: labels and scores of the compliance chart are aligned: they have the
\* same length and the score at every position after the first is the overall
\* score of the competitor the label at that position names.
C28_LabelsAndScoresAligned ==
    LET data == prepareChartData IN
    /\ Len(data.scores) = Len(data.labels)
    /\ \A i \in 2..Len(data.labels) :
           data.scores[i] =
               calculateOverallComplianceScore(data.labels[i],
                                               competitiveAnalysisResults)

\* C22: the category of the criterion of a result is decided in two tiers: an
\* explicit category code is mapped by the fixed table (security and
\* compliance to 'Security & Compliance', other to 'General Requirements', an
\* unknown code capitalised); without a code the text is keyword-matched,
\* security before performance, with 'General Requirements' when no keyword
\* matches. The document's grouping and the charts' grouping both follow it.
C22_CategoryDecidedInTwoTiers ==
    \A i \in DOMAIN competitiveAnalysisResults :
        LET r == competitiveAnalysisResults[i]
            code == validatedCriteria[r.criterionId].category
            kw(word) == includes(criterion_text(r.criterionId), word)
            expected ==
                CASE code \in {"security", "compliance"} -> "Security & Compliance"
                  [] code = "other" -> "General Requirements"
                  [] code = "legal" -> "Legal"
                  [] code = "" /\ (kw("security") \/ kw("encryption")
                                       \/ kw("compliance"))
                         -> "Security & Compliance"
                  [] code = "" /\ (kw("performance") \/ kw("speed")
                                       \/ kw("availability"))
                         -> "Performance & Scalability"
                  [] code = "" /\ (kw("technical") \/ kw("system")
                                       \/ kw("technology"))
                         -> "Technical Requirements"
                  [] code = "" /\ (kw("support") \/ kw("maintenance")
                                       \/ kw("service"))
                         -> "Support & Maintenance"
                  [] code = "" /\ (kw("integration") \/ kw("api")
                                       \/ kw("compatibility"))
                         -> "Integration & Compatibility"
                  [] code = "" /\ (kw("cost") \/ kw("price") \/ kw("financial"))
                         -> "Financial"
                  [] OTHER -> "General Requirements"
        IN
        /\ categorizecriterion(r.criterionId) = expected
        /\ DisplayCategory(r) = expected
        /\ r \in { getCategoryResults(expected, competitiveAnalysisResults)[j] :
                     j \in DOMAIN getCategoryResults(expected,
                                                     competitiveAnalysisResults) }

\* C30: the display categories partition the results: every result is among
\* the results of exactly one category that getCategoriesFromAnalysis returns,
\* the category totals sum to the number of results, and in every category
\* your compliant count and the competitor count, for each single competitor
\* and for 'average', lie between 0 and the total of the category.
C30_CategoriesPartitionResults ==
    LET results == competitiveAnalysisResults
        categories == getCategoriesFromAnalysis(results)
        members(c) == { getCategoryResults(c, results)[j] :
                            j \in DOMAIN getCategoryResults(c, results) }
        sum[S \in SUBSET categories] ==
            IF S = {} THEN 0
            ELSE LET c == CHOOSE x \in S : TRUE
                 IN getCategoryTotalCount(c, results) + sum[S \ {c}]
        selections == {"average"} \cup {ChartRoster[i] : i \in DOMAIN ChartRoster}
    IN
    /\ \A i \in DOMAIN results :
           Cardinality({ c \in categories : results[i] \in members(c) }) = 1
    /\ sum[categories] = Len(results)
    /\ \A c \in categories :
           LET total == getCategoryTotalCount(c, results) IN
           /\ calculateCategoryComplianceCount("your", c, results) \in 0..total
           /\ calculateAverageCompetitorComplianceCount(c, results) \in 0..total
           /\ \A i \in DOMAIN ChartRoster :
                  calculateCategoryComplianceCount(ChartRoster[i], c, results)
                      \in 0..total
           /\ \A selected \in selections :
                  LET data == prepareCategoryChartData(selected)[c] IN
                  /\ data.totals = total
                  /\ data.yourCompliance \in 0..total
                  /\ data.competitorCompliance \in 0..total

\* C30 witness: four results in two categories, one of them the fallback
\* category of a criterion without a category code, with a compliant
\* competitor result in each
C30_Witness ==
    /\ Len(competitiveAnalysisResults) = 4
    /\ getCategoriesFromAnalysis(competitiveAnalysisResults) =
           {"General Requirements", "Security & Compliance"}
    /\ \E i \in DOMAIN validatedCriteria : validatedCriteria[i].category = ""
    /\ \A c \in getCategoriesFromAnalysis(competitiveAnalysisResults) :
           /\ getCategoryTotalCount(c, competitiveAnalysisResults) = 2
           /\ calculateAverageCompetitorComplianceCount(
                  c, competitiveAnalysisResults) = 1
====
